---- MODULE Spec2Model ----
(***************************************************************************)
(* Model of the bulk-data pipeline of mot-data-wrangling:                  *)
(*   - the resumable downloader, _download_file of                         *)
(*     mot_data/dvsa_mot_history_api/api_client.py and its older twin      *)
(*     download_file of mot_history/cli.py;                                *)
(*   - the batch archive converter, convert_zip_to_parquet of              *)
(*     mot_data/dvsa_mot_history_api/zip_to_parquet.py.                    *)
(* The two components share no state; each has its own specification       *)
(* (SpecDownload, SpecConvert) over the variables of this module.          *)
(***************************************************************************)
EXTENDS Integers, Sequences, FiniteSets, TLC

(***************************************************************************)
(* Bounds of the model.                                                    *)
(***************************************************************************)
\* largest size of the remote file, and largest expected_size passed
MaxSize == 3
\* largest size of a destination file present before the first invocation
MaxInit == 2
\* number of downloader invocations in one behaviour
MaxCalls == 3
\* largest number of members of the archive
MaxMembers == 11
\* largest number of delta (non-matching) members of the archive
MaxDelta == 1
\* largest batch_size passed
MaxBatchSize == 3
\* largest number of entries of an output directory present before the call
MaxOld == 2

(***************************************************************************)
(* Program constants.                                                      *)
(***************************************************************************)
\* expected_size=None, the default of the parameter
NoSize == -1
\* chunk_size of request.iter_content (8192 bytes in the code, scaled down)
ChunkSize == 2

VARIABLES
    \* ---- downloader: the filesystem and the server
    destKind,       \* "absent", "file" or "dir": what is at the destination path
    destBytes,      \* the bytes at the destination (st_size = Len(destBytes))
    remote,         \* the bytes of the remote file
    \* ---- downloader: the invocation in progress
    dl_pc,          \* "idle", "awaiting", "streaming", "returned", "raised", "killed"
    impl,           \* "api_client" (_download_file) or "cli" (download_file)
    expected_size,  \* the argument: NoSize or a size in bytes
    headers,        \* the request headers: {} or {k} for Range: bytes=k-
    initial_size,   \* the local variable initial_size
    status,         \* "none", "ok" (2xx) or "error" (4xx/5xx) of the response
    body,           \* the part of the response body not yet yielded by iter_content
    requests,       \* HTTP requests issued by this invocation
    \* ---- downloader: history
    calls,          \* invocations so far
    kindAtCall,     \* destKind when this invocation started
    bytesAtCall,    \* destBytes when this invocation started
    fetched,        \* TRUE once an invocation has streamed a whole body and returned
    cooperative,    \* TRUE while the destination started absent, every invocation
                    \* was given the true size of the remote file, every answer
                    \* was that of a server honouring Range, and every
                    \* invocation ended by returning or by being killed
    \* ---- converter: the arguments and the filesystem
    namelist,       \* zip_file.namelist(): the kind of each member, in archive order
    batch_size,     \* the argument batch_size
    parquet_dir,    \* what is at parquet_dir_path: [kind, files]
    temp_dir,       \* TRUE while the TemporaryDirectory exists
    extracted,      \* the members (indices of namelist) extracted into temp_dir
    temp_parquet,   \* TRUE while temp_dir/output.parquet.d exists
    parquet_files,  \* the files of temp_dir/output.parquet.d
    \* ---- converter: the run in progress
    cv_pc,          \* "idle", "entered", "extract", "import", "unlink", "commit",
                    \* "rename", "returned", "raised"
    gzip_files,     \* the local variable gzip_files (indices of namelist)
    batched_gzip_files, \* the local variable batched_gzip_files
    filename_padding,   \* the local variable filename_padding
    batch_no,       \* the loop variable batch_no
    \* ---- converter: history
    dirAtCall,      \* parquet_dir when the run started
    scratchCreated, \* TRUE once the run has created its TemporaryDirectory
    failedAt,       \* the step that raised: "none", "open", "mkdtemp", "empty",
                    \* "batched", "extract", "import", "unlink", "rename"
    rmtreeError     \* TRUE once rmtree has swallowed an error other than not-found

dlvars == <<destKind, destBytes, remote, dl_pc, impl, expected_size, headers,
            initial_size, status, body, requests, calls, kindAtCall, bytesAtCall,
            fetched, cooperative>>

cvvars == <<namelist, batch_size, parquet_dir, temp_dir, extracted, temp_parquet,
            parquet_files, cv_pc, gzip_files, batched_gzip_files, filename_padding,
            batch_no, dirAtCall, scratchCreated, failedAt, rmtreeError>>

vars == <<dlvars, cvvars>>

(***************************************************************************)
(* Helpers.                                                                *)
(***************************************************************************)
Min(a, b) == IF a <= b THEN a ELSE b

\* sequences over S of length at most n
SeqsUpTo(S, n) == UNION {[1..k -> S] : k \in 0..n}

\* the remote file of r bytes: byte i has value i, so that every byte on disk
\* tells where it came from (0 is a byte that is not of the remote file)
RemoteFile(r) == [i \in 1..r |-> i]

IsPrefix(s, t) == Len(s) <= Len(t) /\ SubSeq(t, 1, Len(s)) = s

(***************************************************************************)
(* The downloader's branch selection.                                      *)
(***************************************************************************)
\* the skip test without its "expected_size is None" alternative
SkipOnlyKnownSize(kind, size, expected) ==
    /\ kind = "file"
    /\ expected # NoSize
    /\ size = expected

\* api_client.py 152-156, cli.py 65-69: the skip test, the same in both
Skip(kind, size, expected) ==
    /\ kind # "absent"                              \* destination.exists()
    /\ kind = "file"                                \* destination.is_file()
    /\ (expected = NoSize \/ size = expected)

\* api_client.py 163-167: headers of _download_file
RangeHeadersApi(kind, size, expected) ==
    IF kind # "absent" /\ expected # NoSize THEN {size} ELSE {}

\* cli.py 74-78: headers of download_file (no test of expected_size)
RangeHeadersCli(kind, size, expected) ==
    IF kind # "absent" THEN {size} ELSE {}

RangeHeaders(i, kind, size, expected) ==
    IF i = "api_client" THEN RangeHeadersApi(kind, size, expected)
    ELSE RangeHeadersCli(kind, size, expected)

\* initial_size: 0 unless a Range header was set
InitialSize(h) == IF h = {} THEN 0 ELSE CHOOSE k \in h : TRUE

(***************************************************************************)
(* The server. A request without a Range header is answered with the whole *)
(* file. A request with Range: bytes=k- is answered either by a server     *)
(* that honours it (206 with bytes k.. when k is inside the file, 416      *)
(* otherwise) or by one that ignores it (200 with the whole file).         *)
(***************************************************************************)
\* the body a server honouring Range sends: the file from byte k on
RangeBody(h, file) ==
    IF h = {} THEN file
    ELSE SubSeq(file, (CHOOSE x \in h : TRUE) + 1, Len(file))

SuccessBodies(h, file) ==
    IF h = {} THEN {file}
    ELSE LET k == CHOOSE x \in h : TRUE
         IN  {file} \cup
             (IF k < Len(file) THEN {SubSeq(file, k + 1, Len(file))} ELSE {})

(***************************************************************************)
(* Downloader: initial states.                                             *)
(***************************************************************************)
\* what may be at the destination before the first invocation: nothing, a
\* directory (its st_size is the length of destBytes), or any file
InitialDest ==
    {[kind |-> "absent", bytes |-> <<>>]}
    \cup {[kind |-> "dir", bytes |-> [i \in 1..n |-> 0]] : n \in 0..MaxInit}
    \cup {[kind |-> "file", bytes |-> b] : b \in SeqsUpTo(0..MaxSize, MaxInit)}

DownloaderInit ==
    /\ \E d \in InitialDest : destKind = d.kind /\ destBytes = d.bytes
    /\ \E r \in 0..MaxSize : remote = RemoteFile(r)
    /\ dl_pc = "idle"
    /\ impl = "api_client"
    /\ expected_size = NoSize
    /\ headers = {}
    /\ initial_size = 0
    /\ status = "none"
    /\ body = <<>>
    /\ requests = 0
    /\ calls = 0
    /\ kindAtCall = destKind
    /\ bytesAtCall = destBytes
    /\ fetched = FALSE
    /\ cooperative = (destKind = "absent")

(***************************************************************************)
(* Downloader: actions.                                                    *)
(***************************************************************************)
\* api_client.py 148-169, cli.py 61-80: from the call to the skip return or to
\* the request being sent (line 149 creates the parent directories, never the
\* destination itself)
Download(i, e) ==
    /\ dl_pc \in {"idle", "returned", "raised", "killed"}
    /\ calls < MaxCalls
    /\ calls' = calls + 1
    /\ impl' = i
    /\ expected_size' = e
    /\ kindAtCall' = destKind
    /\ bytesAtCall' = destBytes
    /\ status' = "none"
    /\ body' = <<>>
    /\ IF Skip(destKind, Len(destBytes), e)
       THEN /\ dl_pc' = "returned"
            /\ requests' = 0
            /\ headers' = {}
            /\ initial_size' = 0
       ELSE /\ headers' = RangeHeaders(i, destKind, Len(destBytes), e)
            /\ initial_size' = InitialSize(headers')
            /\ requests' = 1
            /\ dl_pc' = "awaiting"
    /\ UNCHANGED <<destKind, destBytes, remote, fetched>>
    /\ cooperative' = (cooperative /\ e # NoSize /\ e = Len(remote))
    /\ UNCHANGED cvvars

\* the file opened for append before the status is looked at
RespondErrorAfterOpen ==
    /\ dl_pc = "awaiting"
    /\ status' = "error"
    /\ dl_pc' = "raised"
    /\ destKind' = IF destKind = "dir" THEN "dir" ELSE "file"
    /\ UNCHANGED <<destBytes, remote, impl, expected_size, headers,
                   initial_size, body, requests, calls, kindAtCall, bytesAtCall,
                   fetched>>
    /\ cooperative' = FALSE
    /\ UNCHANGED cvvars

\* api_client.py 170, cli.py 81: raise_for_status on a 4xx/5xx response
RespondError ==
    /\ dl_pc = "awaiting"
    /\ status' = "error"
    /\ dl_pc' = "raised"
    /\ UNCHANGED <<destKind, destBytes, remote, impl, expected_size, headers,
                   initial_size, body, requests, calls, kindAtCall, bytesAtCall,
                   fetched>>
    /\ cooperative' = FALSE
    /\ UNCHANGED cvvars

\* the file opened with "wb": what was on disk is dropped
RespondOkTruncates ==
    /\ dl_pc = "awaiting"
    /\ status' = "ok"
    /\ \E b \in SuccessBodies(headers, remote) :
          IF destKind = "dir"
          THEN /\ dl_pc' = "raised"
               /\ cooperative' = FALSE
               /\ UNCHANGED <<destKind, destBytes, body>>
          ELSE /\ dl_pc' = "streaming"
               /\ destKind' = "file"
               /\ destBytes' = <<>>
               /\ body' = b
               /\ cooperative' = (cooperative /\ b = RangeBody(headers, remote))
    /\ UNCHANGED <<remote, impl, expected_size, headers, initial_size,
                   requests, calls, kindAtCall, bytesAtCall, fetched>>
    /\ UNCHANGED cvvars

\* api_client.py 170-174, cli.py 81-84: a success status, then open("ab"),
\* which creates an absent file and raises on a directory
RespondOk ==
    /\ dl_pc = "awaiting"
    /\ status' = "ok"
    /\ \E b \in SuccessBodies(headers, remote) :
          IF destKind = "dir"
          THEN /\ dl_pc' = "raised"
               /\ cooperative' = FALSE
               /\ UNCHANGED <<destKind, body>>
          ELSE /\ dl_pc' = "streaming"
               /\ destKind' = "file"
               /\ body' = b
               /\ cooperative' = (cooperative /\ b = RangeBody(headers, remote))
    /\ UNCHANGED <<destBytes, remote, impl, expected_size, headers, initial_size,
                   requests, calls, kindAtCall, bytesAtCall, fetched>>
    /\ UNCHANGED cvvars

\* the chunk written at the start of the file instead of its end
WriteChunkOverwrites ==
    /\ dl_pc = "streaming"
    /\ body # <<>>
    /\ LET n == Min(ChunkSize, Len(body))
       IN  /\ destBytes' = SubSeq(body, 1, n) \o SubSeq(destBytes, n + 1, Len(destBytes))
           /\ body' = SubSeq(body, n + 1, Len(body))
    /\ UNCHANGED <<destKind, remote, dl_pc, impl, expected_size, headers,
                   initial_size, status, requests, calls, kindAtCall, bytesAtCall,
                   fetched>>
    /\ UNCHANGED cooperative
    /\ UNCHANGED cvvars

\* api_client.py 179-182, cli.py 97-100: one chunk appended to the file
WriteChunk ==
    /\ dl_pc = "streaming"
    /\ body # <<>>
    /\ LET n == Min(ChunkSize, Len(body))
       IN  /\ destBytes' = destBytes \o SubSeq(body, 1, n)
           /\ body' = SubSeq(body, n + 1, Len(body))
    /\ UNCHANGED <<destKind, remote, dl_pc, impl, expected_size, headers,
                   initial_size, status, requests, calls, kindAtCall, bytesAtCall,
                   fetched>>
    /\ UNCHANGED cooperative
    /\ UNCHANGED cvvars

\* api_client.py 184, cli.py 102: the body is exhausted, return destination
Return ==
    /\ dl_pc = "streaming"
    /\ body = <<>>
    /\ dl_pc' = "returned"
    /\ fetched' = TRUE
    /\ UNCHANGED <<destKind, destBytes, remote, impl, expected_size, headers,
                   initial_size, status, body, requests, calls, kindAtCall,
                   bytesAtCall>>
    /\ UNCHANGED cooperative
    /\ UNCHANGED cvvars

\* api_client.py 179, cli.py 97: iter_content raises on a transport error
TransportError ==
    /\ dl_pc = "streaming"
    /\ dl_pc' = "raised"
    /\ UNCHANGED <<destKind, destBytes, remote, impl, expected_size, headers,
                   initial_size, status, body, requests, calls, kindAtCall,
                   bytesAtCall, fetched>>
    /\ cooperative' = FALSE
    /\ UNCHANGED cvvars

\* the process is terminated from outside between two chunks
Kill ==
    /\ dl_pc = "streaming"
    /\ dl_pc' = "killed"
    /\ UNCHANGED <<destKind, destBytes, remote, impl, expected_size, headers,
                   initial_size, status, body, requests, calls, kindAtCall,
                   bytesAtCall, fetched>>
    /\ UNCHANGED cooperative
    /\ UNCHANGED cvvars

Invoke == \E i \in {"api_client", "cli"}, e \in {NoSize} \cup 0..MaxSize : Download(i, e)

(***************************************************************************)
(* The converter: pure parts.                                              *)
(***************************************************************************)
RECURSIVE FilterFrom(_, _)
\* zip_to_parquet.py 47: fnmatch.filter(namelist, "bulk-light-vehicle_*_*.json.gz"),
\* the matching members in archive order (a member is named by its index)
FilterFrom(names, i) ==
    IF i > Len(names) THEN <<>>
    ELSE (IF names[i] = "bulk" THEN <<i>> ELSE <<>>) \o FilterFrom(names, i + 1)

\* every member selected, the delta files too
FilterEverything(names) == [i \in 1..Len(names) |-> i]

Filter(names) == FilterFrom(names, 1)

RECURSIVE BatchedOneMore(_, _)
\* groups of n + 1 names instead of n
BatchedOneMore(s, n) ==
    IF s = <<>> THEN <<>>
    ELSE <<SubSeq(s, 1, Min(n + 1, Len(s)))>>
         \o BatchedOneMore(SubSeq(s, Min(n + 1, Len(s)) + 1, Len(s)), n)

RECURSIVE Batched(_, _)
\* itertools.batched(s, n) for n >= 1: groups of n, the last one shorter
Batched(s, n) ==
    IF s = <<>> THEN <<>>
    ELSE <<SubSeq(s, 1, Min(n, Len(s)))>> \o Batched(SubSeq(s, Min(n, Len(s)) + 1, Len(s)), n)

RECURSIVE Str(_)
\* str(n) for n >= 0: the decimal digits of n
Str(n) == IF n < 10 THEN <<n>> ELSE Str(n \div 10) \o <<n % 10>>

RECURSIVE ZeroPad(_, _)
\* the digits d left-padded with zeros to w characters (longer ones kept whole)
ZeroPad(d, w) == IF Len(d) >= w THEN d ELSE ZeroPad(<<0>> \o d, w)

\* the padding taken from the last batch index instead of the batch count
FilenamePaddingOfLastIndex(batches) == Len(Str(Len(batches) - 1))

\* zip_to_parquet.py 58: filename_padding = len(str(len(batched_gzip_files)))
FilenamePadding(batches) == Len(Str(Len(batches)))

\* the index written without padding
FormatIndexUnpadded(n, w) == Str(n)

\* zip_to_parquet.py 63: f"{batch_no:0{filename_padding}}", the digits that make
\* the file name bulk_<digits>.parquet
FormatIndex(n, w) == ZeroPad(Str(n), w)

Range(s) == {s[i] : i \in DOMAIN s}

(***************************************************************************)
(* The converter: the filesystem.                                          *)
(***************************************************************************)
NoDir == [kind |-> "absent", files |-> {}]

\* an entry left in parquet_dir_path by an earlier run
OldFile(i) == [name |-> <<i>>, origin |-> "old", batch |-> i, members |-> {}]

\* what may be at parquet_dir_path before the call: nothing, a regular file,
\* or a directory with any entries
InitialDir ==
    {NoDir, [kind |-> "file", files |-> {}]}
    \cup {[kind |-> "dir", files |-> {OldFile(i) : i \in S}] : S \in SUBSET (0..MaxOld - 1)}

\* the archives: any sequence of bulk and delta members
Archives ==
    {a \in SeqsUpTo({"bulk", "delta"}, MaxMembers) :
        Cardinality({i \in DOMAIN a : a[i] = "delta"}) <= MaxDelta}

\* zip_to_parquet.py 68: shutil.rmtree(parquet_dir_path, ignore_errors=True).
\* Every error is swallowed: an absent path or a regular file is left alone,
\* and of a directory any entries that could not be removed remain; the
\* directory itself goes only when it has been emptied.
RmtreeResults(d) ==
    IF d.kind # "dir" THEN {d}
    ELSE {[kind |-> "dir", files |-> R] : R \in SUBSET d.files} \cup {NoDir}

\* zip_to_parquet.py 69: Path.rename replaces nothing but an empty directory
RenameTargetOk(d) == d.kind = "absent" \/ (d.kind = "dir" /\ d.files = {})

\* a scratch directory that nothing removes (mkdtemp without a scope)
NotReleased == UNCHANGED <<temp_dir, extracted, temp_parquet, parquet_files>>

\* zip_to_parquet.py 39-42: what leaving the with block does to the scratch
\* area: TemporaryDirectory.__exit__ removes temp_dir and all it holds
Released ==
    /\ temp_dir' = FALSE
    /\ extracted' = {}
    /\ temp_parquet' = FALSE
    /\ parquet_files' = {}

(***************************************************************************)
(* The converter: initial states and actions.                              *)
(***************************************************************************)
ConverterInit ==
    /\ namelist \in Archives
    /\ batch_size \in 0..MaxBatchSize
    /\ parquet_dir \in InitialDir
    /\ temp_dir = FALSE
    /\ extracted = {}
    /\ temp_parquet = FALSE
    /\ parquet_files = {}
    /\ cv_pc = "idle"
    /\ gzip_files = <<>>
    /\ batched_gzip_files = <<>>
    /\ filename_padding = 0
    /\ batch_no = 0
    /\ dirAtCall = parquet_dir
    /\ scratchCreated = FALSE
    /\ failedAt = "none"
    /\ rmtreeError = FALSE

\* an exception leaves the with block: the scratch area is released
Raise(step) ==
    /\ cv_pc' = "raised"
    /\ failedAt' = step
    /\ Released

\* zip_to_parquet.py 40: zipfile.ZipFile raises (no archive, not a zip file)
OpenFails ==
    /\ cv_pc = "idle"
    /\ cv_pc' = "raised"
    /\ failedAt' = "open"
    /\ UNCHANGED <<namelist, batch_size, parquet_dir, temp_dir, extracted,
                   temp_parquet, parquet_files, gzip_files, batched_gzip_files,
                   filename_padding, batch_no, dirAtCall, scratchCreated>>
    /\ UNCHANGED rmtreeError
    /\ UNCHANGED dlvars

\* zip_to_parquet.py 41: tempfile.TemporaryDirectory raises (no parent directory)
MkdtempFails ==
    /\ cv_pc = "idle"
    /\ cv_pc' = "raised"
    /\ failedAt' = "mkdtemp"
    /\ UNCHANGED <<namelist, batch_size, parquet_dir, temp_dir, extracted,
                   temp_parquet, parquet_files, gzip_files, batched_gzip_files,
                   filename_padding, batch_no, dirAtCall, scratchCreated>>
    /\ UNCHANGED rmtreeError
    /\ UNCHANGED dlvars

\* zip_to_parquet.py 39-43: the archive is open and the TemporaryDirectory made
Enter ==
    /\ cv_pc = "idle"
    /\ cv_pc' = "entered"
    /\ temp_dir' = TRUE
    /\ scratchCreated' = TRUE
    /\ UNCHANGED <<namelist, batch_size, parquet_dir, extracted, temp_parquet,
                   parquet_files, gzip_files, batched_gzip_files, filename_padding,
                   batch_no, dirAtCall, failedAt>>
    /\ UNCHANGED rmtreeError
    /\ UNCHANGED dlvars

\* the selection without the test for an empty one
SelectUnchecked ==
    /\ cv_pc = "entered"
    /\ gzip_files' = Filter(namelist)
    /\ batch_no' = 0
    /\ IF batch_size < 1
       THEN /\ Raise("batched")
            /\ UNCHANGED <<batched_gzip_files, filename_padding>>
       ELSE /\ temp_parquet' = TRUE
            /\ batched_gzip_files' = Batched(gzip_files', batch_size)
            /\ filename_padding' = FilenamePadding(batched_gzip_files')
            /\ cv_pc' = IF batched_gzip_files' = <<>> THEN "commit" ELSE "extract"
            /\ UNCHANGED <<temp_dir, extracted, parquet_files, failedAt>>
    /\ UNCHANGED <<namelist, batch_size, parquet_dir, dirAtCall, scratchCreated>>
    /\ UNCHANGED rmtreeError
    /\ UNCHANGED dlvars

\* zip_to_parquet.py 47-59: the selection, its validation, the provisional
\* directory, the batches and the padding
Select ==
    /\ cv_pc = "entered"
    /\ gzip_files' = Filter(namelist)
    /\ batch_no' = 0
    /\ IF gzip_files' = <<>>
       THEN /\ Raise("empty")                       \* line 49: ValueError
            /\ UNCHANGED <<batched_gzip_files, filename_padding>>
       ELSE IF batch_size < 1
       THEN /\ Raise("batched")                     \* batched(): n must be >= 1
            /\ UNCHANGED <<batched_gzip_files, filename_padding>>
       ELSE /\ temp_parquet' = TRUE
            /\ batched_gzip_files' = Batched(gzip_files', batch_size)
            /\ filename_padding' = FilenamePadding(batched_gzip_files')
            /\ cv_pc' = "extract"
            /\ UNCHANGED <<temp_dir, extracted, parquet_files, failedAt>>
    /\ UNCHANGED <<namelist, batch_size, parquet_dir, dirAtCall, scratchCreated>>
    /\ UNCHANGED rmtreeError
    /\ UNCHANGED dlvars

\* zip_to_parquet.py 60: extractall of the batch's members into temp_dir
Extract ==
    /\ cv_pc = "extract"
    /\ extracted' = extracted \cup Range(batched_gzip_files[batch_no + 1])
    /\ cv_pc' = "import"
    /\ UNCHANGED <<namelist, batch_size, parquet_dir, temp_dir, temp_parquet,
                   parquet_files, gzip_files, batched_gzip_files, filename_padding,
                   batch_no, dirAtCall, scratchCreated, failedAt>>
    /\ UNCHANGED rmtreeError
    /\ UNCHANGED dlvars

\* zip_to_parquet.py 60: extractall raises
ExtractFails ==
    /\ cv_pc = "extract"
    /\ Raise("extract")
    /\ UNCHANGED <<namelist, batch_size, parquet_dir, gzip_files,
                   batched_gzip_files, filename_padding, batch_no, dirAtCall,
                   scratchCreated>>
    /\ UNCHANGED rmtreeError
    /\ UNCHANGED dlvars

\* the batch's file written straight into parquet_dir_path
ImportIntoOutput ==
    /\ cv_pc = "import"
    /\ LET name == FormatIndex(batch_no, filename_padding)
           old == IF parquet_dir.kind = "dir" THEN parquet_dir.files ELSE {}
       IN  parquet_dir' = [kind |-> "dir", files |->
               {f \in old : f.name # name} \cup
               {[name |-> name, origin |-> "run", batch |-> batch_no, members |-> extracted]}]
    /\ cv_pc' = "unlink"
    /\ UNCHANGED <<namelist, batch_size, temp_dir, extracted, parquet_files,
                   temp_parquet, gzip_files, batched_gzip_files, filename_padding,
                   batch_no, dirAtCall, scratchCreated, failedAt>>
    /\ UNCHANGED rmtreeError
    /\ UNCHANGED dlvars

\* zip_to_parquet.py 61-64: COPY (SELECT * FROM read_json(temp_dir/*.json.gz)) TO
\* temp_parquet_dir/bulk_<index>.parquet: one file of all the members found
\* in temp_dir
Import ==
    /\ cv_pc = "import"
    /\ LET name == FormatIndex(batch_no, filename_padding)
       IN  parquet_files' = {f \in parquet_files : f.name # name} \cup
               {[name |-> name, origin |-> "run", batch |-> batch_no, members |-> extracted]}
    /\ cv_pc' = "unlink"
    /\ UNCHANGED <<namelist, batch_size, parquet_dir, temp_dir, extracted,
                   temp_parquet, gzip_files, batched_gzip_files, filename_padding,
                   batch_no, dirAtCall, scratchCreated, failedAt>>
    /\ UNCHANGED rmtreeError
    /\ UNCHANGED dlvars

\* zip_to_parquet.py 61-64: conn.execute raises
ImportFails ==
    /\ cv_pc = "import"
    /\ Raise("import")
    /\ UNCHANGED <<namelist, batch_size, parquet_dir, gzip_files,
                   batched_gzip_files, filename_padding, batch_no, dirAtCall,
                   scratchCreated>>
    /\ UNCHANGED rmtreeError
    /\ UNCHANGED dlvars

\* the loop going on to the next batch without the unlinks
UnlinkNothing ==
    /\ cv_pc = "unlink"
    /\ batch_no' = batch_no + 1
    /\ cv_pc' = IF batch_no + 1 < Len(batched_gzip_files) THEN "extract" ELSE "commit"
    /\ UNCHANGED <<namelist, batch_size, parquet_dir, temp_dir, extracted,
                   temp_parquet, parquet_files, gzip_files, batched_gzip_files,
                   filename_padding, dirAtCall, scratchCreated, failedAt>>
    /\ UNCHANGED rmtreeError
    /\ UNCHANGED dlvars

\* zip_to_parquet.py 65-66 and 59: the batch's files unlinked, next batch
Unlink ==
    /\ cv_pc = "unlink"
    /\ extracted' = extracted \ Range(batched_gzip_files[batch_no + 1])
    /\ batch_no' = batch_no + 1
    /\ cv_pc' = IF batch_no + 1 < Len(batched_gzip_files) THEN "extract" ELSE "commit"
    /\ UNCHANGED <<namelist, batch_size, parquet_dir, temp_dir, temp_parquet,
                   parquet_files, gzip_files, batched_gzip_files, filename_padding,
                   dirAtCall, scratchCreated, failedAt>>
    /\ UNCHANGED rmtreeError
    /\ UNCHANGED dlvars

\* zip_to_parquet.py 65-66: unlink raises
UnlinkFails ==
    /\ cv_pc = "unlink"
    /\ Raise("unlink")
    /\ UNCHANGED <<namelist, batch_size, parquet_dir, gzip_files,
                   batched_gzip_files, filename_padding, batch_no, dirAtCall,
                   scratchCreated>>
    /\ UNCHANGED rmtreeError
    /\ UNCHANGED dlvars

\* zip_to_parquet.py 68: shutil.rmtree(parquet_dir_path, ignore_errors=True)
Rmtree ==
    /\ cv_pc = "commit"
    /\ parquet_dir' \in RmtreeResults(parquet_dir)
    /\ cv_pc' = "rename"
    /\ UNCHANGED <<namelist, batch_size, temp_dir, extracted, temp_parquet,
                   parquet_files, gzip_files, batched_gzip_files, filename_padding,
                   batch_no, dirAtCall, scratchCreated, failedAt>>
    /\ rmtreeError' = (parquet_dir.kind # "absent" /\ parquet_dir' # NoDir)
    /\ UNCHANGED dlvars

\* zip_to_parquet.py 69 and the end of the with block: the provisional
\* directory renamed to parquet_dir_path, or OSError when the target cannot be
\* replaced; then the scratch area released
Rename ==
    /\ cv_pc = "rename"
    /\ IF RenameTargetOk(parquet_dir)
       THEN /\ parquet_dir' = [kind |-> "dir", files |-> parquet_files]
            /\ cv_pc' = "returned"
            /\ Released
            /\ UNCHANGED failedAt
       ELSE /\ Raise("rename")
            /\ UNCHANGED parquet_dir
    /\ UNCHANGED <<namelist, batch_size, gzip_files, batched_gzip_files,
                   filename_padding, batch_no, dirAtCall, scratchCreated>>
    /\ UNCHANGED rmtreeError
    /\ UNCHANGED dlvars

(***************************************************************************)
(* The two specifications: each runs one component and holds the other at  *)
(* rest.                                                                   *)
(***************************************************************************)
DownloaderIdle ==
    /\ destKind = "absent"
    /\ destBytes = <<>>
    /\ remote = <<>>
    /\ dl_pc = "idle"
    /\ impl = "api_client"
    /\ expected_size = NoSize
    /\ headers = {}
    /\ initial_size = 0
    /\ status = "none"
    /\ body = <<>>
    /\ requests = 0
    /\ calls = 0
    /\ kindAtCall = "absent"
    /\ bytesAtCall = <<>>
    /\ fetched = FALSE
    /\ cooperative = (destKind = "absent")

ConverterIdle ==
    /\ namelist = <<>>
    /\ batch_size = 1
    /\ parquet_dir = NoDir
    /\ temp_dir = FALSE
    /\ extracted = {}
    /\ temp_parquet = FALSE
    /\ parquet_files = {}
    /\ cv_pc = "idle"
    /\ gzip_files = <<>>
    /\ batched_gzip_files = <<>>
    /\ filename_padding = 0
    /\ batch_no = 0
    /\ dirAtCall = NoDir
    /\ scratchCreated = FALSE
    /\ failedAt = "none"
    /\ rmtreeError = FALSE

InitDownload == DownloaderInit /\ ConverterIdle

NextDownload ==
    \/ Invoke
    \/ RespondError
    \/ RespondOk
    \/ WriteChunk
    \/ Return
    \/ TransportError
    \/ Kill

SpecDownload == InitDownload /\ [][NextDownload]_vars

InitConvert == ConverterInit /\ DownloaderIdle

NextConvert ==
    \/ OpenFails
    \/ MkdtempFails
    \/ Enter
    \/ Select
    \/ Extract
    \/ ExtractFails
    \/ Import
    \/ ImportFails
    \/ Unlink
    \/ UnlinkFails
    \/ Rmtree
    \/ Rename

SpecConvert == InitConvert /\ [][NextConvert]_vars

(***************************************************************************)
(* Properties of the downloader.                                           *)
(***************************************************************************)
\* C1 - idempotent skip: an invocation (of either implementation) that finds
\* a regular file at the destination, with expected_size unknown or equal to
\* the size on disk, issues no HTTP request, leaves the bytes as they were and
\* returns; so every invocation that follows a completed download of the
\* expected size issues no request.
Thm_C1_IdempotentSkip ==
    (/\ calls > 0
     /\ kindAtCall = "file"
     /\ (expected_size = NoSize \/ Len(bytesAtCall) = expected_size))
    => /\ dl_pc = "returned"
       /\ requests = 0
       /\ status = "none"
       /\ destKind = "file"
       /\ destBytes = bytesAtCall

\* an invocation skipped after an earlier one had fetched the file
Wit_C1_SkipAfterFetch ==
    /\ fetched
    /\ calls >= 2
    /\ dl_pc = "returned"
    /\ requests = 0
    /\ expected_size # NoSize
    /\ Len(destBytes) = expected_size
    /\ expected_size > 0

\* C2 - on every successful return the destination is a file and, when
\* expected_size was passed, its size on disk equals expected_size, whatever
\* was on disk before and whatever body the success response carried.
Cex_C2_SizeOnSuccess ==
    dl_pc = "returned"
    => /\ destKind = "file"
       /\ (expected_size # NoSize => Len(destBytes) = expected_size)

\* C3 - resume: from a destination file of k < expected_size bytes the
\* invocation issues exactly one request, with Range: bytes=k-, appends what it
\* receives after the k bytes, which stay as they were, and ends with a file of
\* expected_size bytes. (Stated for the invocations whose expected_size is the
\* true size of the remote file: the claim fails even there.)
Cex_C3_Resume ==
    (/\ dl_pc = "returned"
     /\ kindAtCall = "file"
     /\ expected_size # NoSize
     /\ expected_size = Len(remote)
     /\ Len(bytesAtCall) < expected_size)
    => /\ requests = 1
       /\ headers = {Len(bytesAtCall)}
       /\ IsPrefix(bytesAtCall, destBytes)
       /\ Len(destBytes) = expected_size

\* C4 - a non-success status makes the invocation raise after its one request,
\* with the destination exactly as it was at the call: a partial file is
\* neither removed nor truncated and an absent file is not created.
Thm_C4_FailureKeepsFile ==
    status = "error"
    => /\ dl_pc = "raised"
       /\ requests = 1
       /\ destKind = kindAtCall
       /\ destBytes = bytesAtCall

\* a failed resume of a partial file
Wit_C4_FailedResume ==
    /\ status = "error"
    /\ dl_pc = "raised"
    /\ kindAtCall = "file"
    /\ Len(bytesAtCall) > 0
    /\ headers = {Len(bytesAtCall)}

(***************************************************************************)
(* Properties of the converter.                                            *)
(***************************************************************************)
\* the number of archive members that match the selection pattern
MatchingCount == Cardinality({i \in DOMAIN namelist : namelist[i] = "bulk"})

\* ceil(n / b) for b >= 1
Ceil(n, b) == (n + b - 1) \div b

\* the number of decimal digits needed to write n >= 0
DigitsNeeded(n) == IF n < 10 THEN 1 ELSE IF n < 100 THEN 2 ELSE 3

RECURSIVE IndexOf(_)
\* the number a string of decimal digits denotes
IndexOf(d) == IF d = <<>> THEN 0 ELSE 10 * IndexOf(SubSeq(d, 1, Len(d) - 1)) + d[Len(d)]

\* the steps of a run that come before the commit (lines 39-66)
BeforeCommit ==
    \/ cv_pc \in {"idle", "entered", "extract", "import", "unlink", "commit"}
    \/ /\ cv_pc = "raised"
       /\ failedAt \in {"open", "mkdtemp", "empty", "batched", "extract", "import",
                        "unlink"}

\* C5 - until every batch has been converted nothing is created, written,
\* deleted or renamed at the output directory path: in every state before the
\* commit, and after a raise from validation, extraction, conversion or
\* scratch deletion, the output directory is exactly what it was at the call.
Thm_C5_UntouchedBeforeCommit == BeforeCommit => parquet_dir = dirAtCall

\* the second of three batches fails to convert, over an existing output
Wit_C5_SecondBatchFails ==
    /\ cv_pc = "raised"
    /\ failedAt = "import"
    /\ batch_no = 1
    /\ Len(batched_gzip_files) = 3
    /\ dirAtCall.kind = "dir"
    /\ dirAtCall.files # {}

\* C6 - atomic commit on every exit path: when the run has raised the output
\* directory is unchanged or absent, when it has returned the output directory
\* holds exactly one file per batch; it is never left partly deleted or partly
\* written.
Cex_C6_AtomicCommit ==
    /\ cv_pc = "raised" => (parquet_dir = dirAtCall \/ parquet_dir.kind = "absent")
    /\ cv_pc = "returned" =>
          /\ parquet_dir.kind = "dir"
          /\ Cardinality(parquet_dir.files) = Len(batched_gzip_files)
          /\ \A f \in parquet_dir.files : f.origin = "run"

\* C7 - the scratch directory of the run is gone on every exit path (return,
\* empty selection, error in a batch, error in the commit step), and on return
\* the provisional output directory had been moved out of it: its files are
\* the output directory's.
Thm_C7_ScratchReleased ==
    cv_pc \in {"returned", "raised"}
    => /\ ~temp_dir
       /\ extracted = {}
       /\ ~temp_parquet
       /\ parquet_files = {}
       /\ cv_pc = "returned" =>
             /\ scratchCreated
             /\ parquet_dir.kind = "dir"
             /\ parquet_dir.files # {}
             /\ \A f \in parquet_dir.files : f.origin = "run"

\* the run raised in the commit step, after the scratch directory had held
\* the provisional output of every batch
Wit_C7_RaisedInCommit ==
    /\ cv_pc = "raised"
    /\ failedAt = "rename"
    /\ scratchCreated
    /\ ~temp_dir
    /\ Len(batched_gzip_files) >= 2

NoMemberMatches == \A i \in DOMAIN namelist : namelist[i] # "bulk"

\* C8 as stated - with no matching member the run creates no scratch area at
\* any point and neither creates nor modifies the output directory.
Cex_C8_NoScratchEver ==
    NoMemberMatches
    => /\ ~scratchCreated
       /\ ~temp_dir
       /\ parquet_dir = dirAtCall

\* C8 as amended - with no matching member the run raises at the validation,
\* before any provisional directory, extraction or conversion, and neither
\* creates nor modifies the output directory; the scratch directory, created
\* before the selection is looked at, is removed again when the run raises.
Thm_C8_EmptySelection ==
    NoMemberMatches
    => /\ parquet_dir = dirAtCall
       /\ cv_pc \in {"idle", "entered", "raised"}
       /\ ~temp_parquet
       /\ extracted = {}
       /\ parquet_files = {}
       /\ cv_pc = "raised" =>
             /\ ~temp_dir
             /\ failedAt \in {"open", "mkdtemp", "empty"}

\* an archive of delta members only, over an existing output directory
Wit_C8_OnlyDelta ==
    /\ NoMemberMatches
    /\ namelist # <<>>
    /\ cv_pc = "raised"
    /\ failedAt = "empty"
    /\ scratchCreated
    /\ dirAtCall.kind = "dir"
    /\ dirAtCall.files # {}

\* C9 - output count: a run that returns, on N >= 1 matching members with
\* batch_size b >= 1, leaves exactly ceil(N/b) files in the output directory,
\* whose indices are 0 .. ceil(N/b) - 1.
Thm_C9_OutputCount ==
    cv_pc = "returned"
    => /\ MatchingCount >= 1
       /\ batch_size >= 1
       /\ parquet_dir.kind = "dir"
       /\ Cardinality(parquet_dir.files) = Ceil(MatchingCount, batch_size)
       /\ {IndexOf(f.name) : f \in parquet_dir.files}
              = 0 .. Ceil(MatchingCount, batch_size) - 1

\* a last batch shorter than the others, over a replaced output directory
Wit_C9_ShortLastBatch ==
    /\ cv_pc = "returned"
    /\ batch_size = 2
    /\ MatchingCount = 5
    /\ dirAtCall.kind = "dir"

\* C10 as stated - every output file name carries its index zero-padded to the
\* number of decimal digits of (batch count - 1): width 1 for 10 batches.
Cex_C10_WidthOfLastIndex ==
    cv_pc = "returned"
    => \A f \in parquet_dir.files :
          Len(f.name) = DigitsNeeded(Len(batched_gzip_files) - 1)

\* C10 as amended - every output file name carries its index zero-padded to
\* the number of decimal digits of the batch count itself: width 1 for 3
\* batches, width 2 for 10 and for 11 batches.
Thm_C10_WidthOfBatchCount ==
    cv_pc = "returned"
    => \A f \in parquet_dir.files :
          /\ Len(f.name) = DigitsNeeded(Cardinality(parquet_dir.files))
          /\ \A i \in DOMAIN f.name : f.name[i] \in 0..9
          /\ IndexOf(f.name) < Cardinality(parquet_dir.files)

\* ten batches: names of width 2 although 9, the last index, has one digit
Wit_C10_TenBatches ==
    /\ cv_pc = "returned"
    /\ Cardinality(parquet_dir.files) = 10
    /\ \E f \in parquet_dir.files : f.name = <<0, 9>>

\* the characters of a file name from its index on, as code points: the digits
\* and the "." of ".parquet" (the prefix "bulk_" and the rest of the suffix are
\* the same in every name)
NameChars(d) == [i \in 1..Len(d) + 1 |-> IF i <= Len(d) THEN 48 + d[i] ELSE 46]

RECURSIVE LexLess(_, _)
\* a < b in the lexicographic order of strings
LexLess(a, b) ==
    IF b = <<>> THEN FALSE
    ELSE IF a = <<>> THEN TRUE
    ELSE IF a[1] # b[1] THEN a[1] < b[1]
    ELSE LexLess(Tail(a), Tail(b))

\* the files this run has written so far, provisional or committed
RunFiles == parquet_files \cup {f \in parquet_dir.files : f.origin = "run"}

\* C11 - name order is batch order: of any two files of a run the one of the
\* lower batch has the name that sorts strictly first as a string, and all
\* names of a run have the same length.
Thm_C11_NamesSortInBatchOrder ==
    \A f, g \in RunFiles :
        /\ Len(f.name) = Len(g.name)
        /\ f.batch < g.batch => LexLess(NameChars(f.name), NameChars(g.name))

\* eleven batches committed: "02" sorts before "10"
Wit_C11_ElevenBatches ==
    /\ cv_pc = "returned"
    /\ Cardinality(parquet_dir.files) = 11
    /\ \E f, g \in parquet_dir.files :
          f.batch = 2 /\ g.batch = 10 /\ f.name = <<0, 2>> /\ g.name = <<1, 0>>

\* the position of member idx among the matching members, in archive order
MatchRank(idx) == Cardinality({j \in 1..idx : namelist[j] = "bulk"})

\* the members of batch k: the k-th group of batch_size consecutive matching
\* members
BatchMembers(k) ==
    {idx \in DOMAIN namelist :
        /\ namelist[idx] = "bulk"
        /\ batch_size >= 1
        /\ (MatchRank(idx) - 1) \div batch_size = k}

\* C12 - bounded scratch: in every state of a run the scratch area holds at
\* most batch_size extracted member files, all of the batch being processed,
\* and none at all when the extraction of a batch starts.
Thm_C12_BoundedScratch ==
    /\ Cardinality(extracted) <= batch_size
    /\ extracted # {} =>
          /\ cv_pc \in {"import", "unlink"}
          /\ extracted \subseteq BatchMembers(batch_no)
    /\ cv_pc = "extract" => extracted = {}

\* the second batch extracted in full, the first one gone
Wit_C12_SecondBatchExtracted ==
    /\ cv_pc = "import"
    /\ batch_no = 1
    /\ batch_size = 3
    /\ Cardinality(extracted) = 3
    /\ Cardinality(parquet_files) = 1

\* C13 - exactly-once conversion: on return the file of batch i holds the
\* records of exactly the members of batch i, every matching member is in
\* exactly one output file and no delta member is in any.
Thm_C13_ExactlyOnce ==
    cv_pc = "returned"
    => /\ \A f \in parquet_dir.files : f.members = BatchMembers(f.batch)
       /\ \A idx \in DOMAIN namelist :
             Cardinality({f \in parquet_dir.files : idx \in f.members})
                = IF namelist[idx] = "bulk" THEN 1 ELSE 0

\* a delta member between the matching ones, several batches
Wit_C13_DeltaBetween ==
    /\ cv_pc = "returned"
    /\ Len(namelist) >= 4
    /\ namelist[2] = "delta"
    /\ batch_size = 2
    /\ MatchingCount = 3
    /\ Cardinality(parquet_dir.files) = 2

(***************************************************************************)
(* Properties of the downloader, continued.                                *)
(***************************************************************************)
\* C14 - interrupted downloads stay resumable: from an absent destination,
\* with the true size passed and a server honouring Range, whatever
\* invocations were killed between chunks the file on disk is a prefix of the
\* remote file no longer than expected_size; an invocation that runs to its
\* return leaves the file complete, and an invocation that finds it complete
\* skips.
Thm_C14_Resumable ==
    cooperative
    => /\ IsPrefix(destBytes, remote)
       /\ calls > 0 => Len(destBytes) <= expected_size
       /\ dl_pc = "returned" =>
             /\ destKind = "file"
             /\ destBytes = remote
             /\ Len(destBytes) = expected_size
       /\ (calls > 0 /\ kindAtCall = "file" /\ bytesAtCall = remote) =>
             /\ dl_pc = "returned"
             /\ requests = 0

\* the first invocation was killed after one chunk, the second resumed at
\* byte 2 and completed the file
Wit_C14_ResumedAfterKill ==
    /\ cooperative
    /\ calls = 2
    /\ dl_pc = "returned"
    /\ headers = {2}
    /\ Len(remote) = 3
    /\ destBytes = remote

\* C15 - branch selection is a function of (exists, is a regular file, size on
\* disk, expected_size): skip iff a regular file and expected_size unknown or
\* equal to the size; otherwise resume with Range: bytes=k- iff the
\* destination exists and expected_size is known; otherwise a fresh fetch
\* without Range. With expected_size unknown no Range header is ever sent, in
\* either implementation.
Cex_C15_BranchSelection ==
    calls > 0
    => LET k == Len(bytesAtCall)
           skip == kindAtCall = "file" /\ (expected_size = NoSize \/ k = expected_size)
           resume == ~skip /\ kindAtCall # "absent" /\ expected_size # NoSize
       IN  /\ skip => (requests = 0 /\ dl_pc = "returned" /\ headers = {})
           /\ resume => (requests = 1 /\ headers = {k})
           /\ (~skip /\ ~resume) => (requests = 1 /\ headers = {})
           /\ expected_size = NoSize => headers = {}

\* C16 - no stale or swallowed commit: on return the output directory is this
\* run's provisional directory, holding only files of this run and none of
\* the entries it had before; and a pre-existing output directory whose
\* removal failed (with any error but not-found) makes the run raise, not
\* return.
Cex_C16_NoSwallowedCommit ==
    /\ cv_pc = "returned" =>
          /\ parquet_dir.kind = "dir"
          /\ parquet_dir.files # {}
          /\ \A f \in parquet_dir.files : f.origin = "run"
    /\ (rmtreeError /\ dirAtCall.kind = "dir") => cv_pc # "returned"

\* an invocation that found a file larger than the expected_size it was given
Oversized ==
    /\ calls > 0
    /\ expected_size # NoSize
    /\ kindAtCall = "file"
    /\ Len(bytesAtCall) > expected_size

\* C17 - append-only destination: no step of any invocation, successful,
\* failed or killed, shortens the file or changes a byte already on disk; so
\* an invocation that finds the file larger than its expected_size neither
\* skips nor leaves a file of expected_size bytes: it issues one request, with
\* a Range that starts beyond expected_size.
Thm_C17_AppendOnly ==
    /\ [][/\ IsPrefix(destBytes, destBytes')
          /\ destKind = "file" => destKind' = "file"]_vars
    /\ [](Oversized =>
             /\ requests = 1
             /\ headers = {Len(bytesAtCall)}
             /\ Len(bytesAtCall) > expected_size
             /\ Len(destBytes) > expected_size
             /\ destKind = "file")

\* after an earlier fetch had left the file too long, a later invocation asks
\* for a range beyond expected_size
Wit_C17_RangeBeyondSize ==
    /\ Oversized
    /\ fetched
    /\ calls >= 2
    /\ expected_size = Len(remote)
    /\ expected_size > 0
    /\ headers = {Len(destBytes)}
    /\ dl_pc = "raised"
    /\ status = "error"

====
